---- MODULE Spec2Model ----
(***************************************************************************)
(* Shape-level model of ola_vlm/model/aux_heads/da_v2_head.py.             *)
(*                                                                         *)
(* A tensor is modelled by its shape (a sequence of integers).  Learned    *)
(* weights are arbitrary, so a convolution's output values are a free      *)
(* input; only the rectifications and the shape arithmetic are computed.   *)
(* A call that raises is a result record whose err field names the Python  *)
(* exception; "none" means the call returned.                              *)
(***************************************************************************)
EXTENDS Integers, Sequences, FiniteSets, TLC

VARIABLES head, ret, fusion, fret, lang, lret

vars == <<head, ret, fusion, fret, lang, lret>>

(***************************************************************************)
(* Bounds of the model.                                                    *)
(***************************************************************************)
MaxBatch == 2
MaxPatch == 3
MaxEntries == 5
MaxOut == 2
MaxTracked == 1
MaxVal == 1
MaxSide == 2
MaxDim == 3
MaxSeq == 2

(***************************************************************************)
(* Program constants.                                                      *)
(***************************************************************************)
EmbdDim == 1024
ImageSide == 336
PatchSize == 14
HeadFeatures2 == 32
LlmHiddenSize == 4096

DefaultOutChannels == <<256, 512, 1024, 1024>>

None == <<>>

NoErr == "none"

Ok(shape) == [err |-> NoErr, shape |-> shape]

Fail(e) == [err |-> e, shape |-> <<>>]

Max(a, b) == IF a >= b THEN a ELSE b

(***************************************************************************)
(* torch primitives, by shape.                                             *)
(***************************************************************************)

\* nn.Conv2d(cin, cout, kernel_size=k, stride=s, padding=p) applied to x
Conv2d(x, cin, cout, k, s, p) ==
    IF Len(x) # 4 \/ x[2] # cin \/ x[3] + 2 * p < k \/ x[4] + 2 * p < k
    THEN Fail("RuntimeError")
    ELSE Ok(<<x[1], cout, ((x[3] + 2 * p - k) \div s) + 1,
                          ((x[4] + 2 * p - k) \div s) + 1>>)

\* nn.ConvTranspose2d(cin, cout, kernel_size=k, stride=s, padding=0)
ConvTranspose2d(x, cin, cout, k, s) ==
    IF Len(x) # 4 \/ x[2] # cin
    THEN Fail("RuntimeError")
    ELSE Ok(<<x[1], cout, (x[3] - 1) * s + k, (x[4] - 1) * s + k>>)

\* nn.Linear(fin, fout) acts on the last axis
Linear(x, fin, fout) ==
    IF Len(x) = 0 \/ x[Len(x)] # fin
    THEN Fail("RuntimeError")
    ELSE Ok([i \in 1..Len(x) |-> IF i = Len(x) THEN fout ELSE x[i]])

\* nn.BatchNorm2d(features): in training mode it refuses a single value per
\* channel, and otherwise updates its running statistics
BatchNorm2d(x, features, training) ==
    IF Len(x) # 4 \/ x[2] # features THEN Fail("RuntimeError")
    ELSE IF training /\ x[1] * x[3] * x[4] = 1 THEN Fail("ValueError")
    ELSE Ok(x)

\* elementwise addition with broadcasting (FloatFunctional.add)
Broadcastable(a, b) ==
    /\ Len(a) = Len(b)
    /\ \A i \in 1..Len(a) : a[i] = b[i] \/ a[i] = 1 \/ b[i] = 1

Add(a, b) ==
    IF Broadcastable(a, b)
    THEN Ok([i \in 1..Len(a) |-> Max(a[i], b[i])])
    ELSE Fail("RuntimeError")

\* F.interpolate(x, size=size, mode="bilinear", align_corners=True)
InterpolateSize(x, size) ==
    IF Len(x) # 4 \/ Len(size) # 2 \/ x[3] < 1 \/ x[4] < 1
       \/ size[1] < 1 \/ size[2] < 1
    THEN Fail("RuntimeError")
    ELSE Ok(<<x[1], x[2], size[1], size[2]>>)

\* F.interpolate(x, scale_factor=f, mode="bilinear", align_corners=True)
InterpolateScale(x, f) ==
    IF Len(x) # 4 \/ x[3] < 1 \/ x[4] < 1
    THEN Fail("RuntimeError")
    ELSE Ok(<<x[1], x[2], x[3] * f, x[4] * f>>)

\* a rectification that lets negative values through
ReLU_identity(v) == v

\* ReLU on a value
ReLU(v) == IF v > 0 THEN v ELSE 0

\* x.shape[2:]
Spatial(x) == IF Len(x) = 4 THEN <<x[3], x[4]>> ELSE <<>>

(***************************************************************************)
(* ResidualConvUnit                                                        *)
(***************************************************************************)

\* ResidualConvUnit.forward: upd tells whether the unit's batch-norm
\* buffers (running_mean, running_var, num_batches_tracked) were updated
ResidualConvUnit_forward(features, bn, training, x) ==
    LET Conv(y) == IF y.err # NoErr THEN y
                   ELSE Conv2d(y.shape, features, features, 3, 1, 1)
        Norm(y) == IF y.err # NoErr \/ ~bn THEN y
                   ELSE BatchNorm2d(y.shape, features, training)
        SkipAdd(out) == IF out.err # NoErr THEN out ELSE Add(out.shape, x)
        Result(b1, sum) == [err |-> sum.err, shape |-> sum.shape,
                            upd |-> bn /\ training /\ b1.err = NoErr]
        Second(b1) == Result(b1, SkipAdd(Norm(Conv(b1))))
    IN  Second(Norm(Conv(Ok(x))))

(***************************************************************************)
(* FeatureFusionBlock                                                      *)
(***************************************************************************)

\* FeatureFusionBlock.__init__
FeatureFusionBlock_init(features, bn, expand, size) ==
    [features     |-> features,
     out_features |-> IF expand THEN features \div 2 ELSE features,
     bn           |-> bn,
     expand       |-> expand,
     size         |-> size]

\* a modifier that forgets the size arguments
Modifier_scale_only(self, size) == [key |-> "scale_factor", val |-> <<2>>]

\* a modifier that lets the construction-time size win over the argument
Modifier_config_first(self, size) ==
    IF size = None /\ self.size = None THEN [key |-> "scale_factor", val |-> <<2>>]
    ELSE IF self.size # None THEN [key |-> "size", val |-> self.size]
    ELSE [key |-> "size", val |-> size]

\* the keyword arguments handed to interpolate
Modifier(self, size) ==
    IF size = None /\ self.size = None THEN [key |-> "scale_factor", val |-> <<2>>]
    ELSE IF size = None THEN [key |-> "size", val |-> self.size]
    ELSE [key |-> "size", val |-> size]

\* nn.functional.interpolate(output, **modifier, mode="bilinear", align_corners=...)
Interpolate(x, m) ==
    IF m.key = "scale_factor" THEN InterpolateScale(x, m.val[1])
    ELSE InterpolateSize(x, m.val)

\* FeatureFusionBlock.forward(*xs, size=size): upd is the set of residual
\* units (1, 2) whose batch-norm buffers the call updated, also when it raises
FeatureFusionBlock_forward(self, training, xs, size) ==
    LET Unit(k, r) == IF r.upd THEN {k} ELSE {}
        Result(upd, out) == [err |-> out.err, shape |-> out.shape, upd |-> upd]
        OutConv(up) == IF up.err # NoErr THEN up
                       ELSE Conv2d(up.shape, self.features, self.out_features, 1, 1, 0)
        Second(upd, r2) ==
            IF r2.err # NoErr THEN Result(upd \cup Unit(2, r2), Fail(r2.err))
            ELSE Result(upd \cup Unit(2, r2),
                        OutConv(Interpolate(r2.shape, Modifier(self, size))))
        Fused(upd, output) ==
            IF output.err # NoErr THEN Result(upd, output)
            ELSE Second(upd, ResidualConvUnit_forward(self.features, self.bn, training,
                                                      output.shape))
        First(res) ==
            IF res.err # NoErr THEN Result(Unit(1, res), Fail(res.err))
            ELSE Fused(Unit(1, res), Add(xs[1], res.shape))
    IN  IF Len(xs) = 0 THEN Result({}, Fail("IndexError"))
        ELSE IF Len(xs) = 2
        THEN First(ResidualConvUnit_forward(self.features, self.bn, training, xs[2]))
        ELSE Fused({}, Ok(xs[1]))

\* _make_fusion_block
make_fusion_block(features, use_bn, size) ==
    FeatureFusionBlock_init(features, use_bn, FALSE, size)

(***************************************************************************)
(* _make_scratch                                                           *)
(***************************************************************************)

\* width of the k-th alignment convolution
ScratchWidth(out_shape, expand, k) ==
    IF ~expand THEN out_shape
    ELSE IF k = 1 THEN out_shape
    ELSE IF k = 2 THEN out_shape * 2
    ELSE IF k = 3 THEN out_shape * 4
    ELSE out_shape * 8

\* a scratch stage that never builds layer4_rn
make_scratch_three(in_shape, out_shape, expand) ==
    IF Len(in_shape) < 3 THEN [err |-> "IndexError", layers |-> <<>>]
    ELSE [err    |-> NoErr,
          layers |-> [k \in 1..3 |->
                        [cin |-> in_shape[k], cout |-> ScratchWidth(out_shape, expand, k)]]]

\* _make_scratch: the convolutions layer1_rn .. layer3_rn, and layer4_rn when
\* in_shape has four entries or more
make_scratch(in_shape, out_shape, expand) ==
    IF Len(in_shape) < 3 THEN [err |-> "IndexError", layers |-> <<>>]
    ELSE [err    |-> NoErr,
          layers |-> [k \in 1..(IF Len(in_shape) >= 4 THEN 4 ELSE 3) |->
                        [cin |-> in_shape[k], cout |-> ScratchWidth(out_shape, expand, k)]]]

(***************************************************************************)
(* DPTHead                                                                 *)
(***************************************************************************)

\* the module DPTHead.__init__ builds around the scratch stage
DPTHead_modules(in_channels, features, use_bn, out_channels, use_clstoken, scratch) ==
    IF scratch.err # NoErr THEN [err |-> scratch.err, obj |-> None]
    ELSE [err |-> NoErr,
          obj |-> [use_clstoken     |-> use_clstoken,
                   use_bn           |-> use_bn,
                   in_channels      |-> in_channels,
                   features         |-> features,
                   out_channels     |-> out_channels,
                   projects         |-> [i \in 1..Len(out_channels) |->
                                           [cin |-> in_channels, cout |-> out_channels[i]]],
                   resize_layers    |-> <<[op |-> "ConvTranspose2d", c |-> out_channels[1], k |-> 4, s |-> 4],
                                          [op |-> "ConvTranspose2d", c |-> out_channels[2], k |-> 2, s |-> 2],
                                          [op |-> "Identity", c |-> 0, k |-> 1, s |-> 1],
                                          [op |-> "Conv2d", c |-> out_channels[4], k |-> 3, s |-> 2]>>,
                   readout_projects |-> IF use_clstoken THEN Len(out_channels) ELSE 0,
                   scratch          |-> scratch.layers,
                   refinenet        |-> [r \in 1..4 |-> make_fusion_block(features, use_bn, None)]]]

\* DPTHead.__init__: resize_layers reads out_channels[0], [1] and [3]
DPTHead_init(in_channels, features, use_bn, out_channels, use_clstoken) ==
    IF Len(out_channels) < 4 THEN [err |-> "IndexError", obj |-> None]
    ELSE DPTHead_modules(in_channels, features, use_bn, out_channels, use_clstoken,
                         make_scratch(out_channels, features, FALSE))

\* self.resize_layers[i](x)
ResizeLayer(self, i, x) ==
    IF i > Len(self.resize_layers) THEN Fail("IndexError")
    ELSE IF self.resize_layers[i].op = "ConvTranspose2d"
    THEN ConvTranspose2d(x, self.resize_layers[i].c, self.resize_layers[i].c,
                         self.resize_layers[i].k, self.resize_layers[i].s)
    ELSE IF self.resize_layers[i].op = "Conv2d"
    THEN Conv2d(x, self.resize_layers[i].c, self.resize_layers[i].c,
                self.resize_layers[i].k, self.resize_layers[i].s, 1)
    ELSE Ok(x)

\* the class-token readout of entry i: expand_as, cat, readout_projects[i]
Readout(self, e, i) ==
    IF ~self.use_clstoken THEN Ok(e.x)
    ELSE IF Len(e.x) # 3 \/ e.cls # <<e.x[1], e.x[3]>> THEN Fail("RuntimeError")
    ELSE IF i > self.readout_projects THEN Fail("IndexError")
    ELSE Linear(<<e.x[1], e.x[2], 2 * e.x[3]>>, 2 * self.in_channels, self.in_channels)

\* a reshape that does not compare element counts
Reshape_unchecked(x, patch_h, patch_w) ==
    IF Len(x) # 3 THEN Fail("RuntimeError")
    ELSE Ok(<<x[1], x[3], patch_h, patch_w>>)

\* x.permute(0, 2, 1).reshape((x.shape[0], x.shape[-1], patch_h, patch_w))
Reshape(x, patch_h, patch_w) ==
    IF Len(x) # 3 THEN Fail("RuntimeError")
    ELSE IF x[1] * x[3] * x[2] # x[1] * x[3] * patch_h * patch_w THEN Fail("RuntimeError")
    ELSE Ok(<<x[1], x[3], patch_h, patch_w>>)

\* one iteration of the loop over out_features (i counts from 1)
PreprocessEntry(self, e, i, patch_h, patch_w) ==
    LET Shaped(rd) == IF rd.err # NoErr THEN rd ELSE Reshape(rd.shape, patch_h, patch_w)
        Projected(rs) ==
            IF rs.err # NoErr THEN rs
            ELSE IF i > Len(self.projects) THEN Fail("IndexError")
            ELSE Conv2d(rs.shape, self.projects[i].cin, self.projects[i].cout, 1, 1, 0)
        Resized(pj) == IF pj.err # NoErr THEN pj ELSE ResizeLayer(self, i, pj.shape)
    IN  Resized(Projected(Shaped(Readout(self, e, i))))

RECURSIVE Preprocess(_, _, _, _, _, _)
\* the loop over out_features: stops at the first entry that raises
Preprocess(self, out_features, patch_h, patch_w, i, out) ==
    LET Collect(r) ==
            IF r.err # NoErr THEN [err |-> r.err, out |-> out]
            ELSE Preprocess(self, out_features, patch_h, patch_w, i + 1, Append(out, r.shape))
    IN  IF i > Len(out_features) THEN [err |-> NoErr, out |-> out]
        ELSE Collect(PreprocessEntry(self, out_features[i], i, patch_h, patch_w))

\* self.scratch.layer<k>_rn(x)
ScratchLayer(self, k, x) ==
    IF k > Len(self.scratch) THEN Fail("AttributeError")
    ELSE Conv2d(x, self.scratch[k].cin, self.scratch[k].cout, 3, 1, 1)

\* the result of a DPTHead.forward that raised before the cascade
Aborted(e, layers) ==
    [err |-> e, shape |-> <<>>, vmin |-> 0, layers |-> layers, stages |-> <<>>, upd |-> {}]

\* one refinenet call of the cascade, as logged
Stage(k, xs, r) ==
    [stage |-> k,
     deep  |-> Spatial(xs[1]),
     skip  |-> IF Len(xs) = 2 THEN Spatial(xs[2]) ELSE None,
     out   |-> Spatial(r.shape),
     err   |-> r.err]

\* the batch norms of refinenet k that the call r updated
BnUnits(k, r) == {<<k, u>> : u \in r.upd}

\* the output head: output_conv1, the 14x resize, output_conv2 (whose last
\* 1x1 convolution yields values bounded below by v before the rectification)
OutputHead(self, path_1, patch_h, patch_w, v) ==
    LET Resize(c1) ==
            IF c1.err # NoErr THEN c1
            ELSE InterpolateSize(c1.shape, <<patch_h * PatchSize, patch_w * PatchSize>>)
        Conv2a(up) == IF up.err # NoErr THEN up
                      ELSE Conv2d(up.shape, self.features \div 2, HeadFeatures2, 3, 1, 1)
        Conv2b(c2) == IF c2.err # NoErr THEN c2
                      ELSE Conv2d(c2.shape, HeadFeatures2, 1, 1, 1, 0)
        Result(c3) == [err |-> c3.err, shape |-> c3.shape, vmin |-> ReLU(v)]
    IN  Result(Conv2b(Conv2a(Resize(
            Conv2d(path_1, self.features, self.features \div 2, 3, 1, 1)))))

\* the cascade refinenet4 .. refinenet1 on the aligned maps rn, then the
\* output head; it stops at the first call that raises
Cascade(self, training, rn, patch_h, patch_w, v) ==
    LET Raised(e, log, upd) ==
            [err |-> e, shape |-> <<>>, vmin |-> 0, layers |-> rn,
             stages |-> log, upd |-> upd]
        Out(log, upd, oh) ==
            IF oh.err # NoErr THEN Raised(oh.err, log, upd)
            ELSE [err |-> NoErr, shape |-> oh.shape, vmin |-> oh.vmin, layers |-> rn,
                  stages |-> log, upd |-> upd]
        Path1(log, upd, xs, p) ==
            IF p.err # NoErr
            THEN Raised(p.err, Append(log, Stage(1, xs, p)), upd \cup BnUnits(1, p))
            ELSE Out(Append(log, Stage(1, xs, p)), upd \cup BnUnits(1, p),
                     OutputHead(self, p.shape, patch_h, patch_w, v))
        Run1(log, upd, xs) ==
            Path1(log, upd, xs,
                  FeatureFusionBlock_forward(self.refinenet[1], training, xs, None))
        Path2(log, upd, xs, p) ==
            IF p.err # NoErr
            THEN Raised(p.err, Append(log, Stage(2, xs, p)), upd \cup BnUnits(2, p))
            ELSE Run1(Append(log, Stage(2, xs, p)), upd \cup BnUnits(2, p),
                      <<p.shape, rn[1]>>)
        Run2(log, upd, xs) ==
            Path2(log, upd, xs,
                  FeatureFusionBlock_forward(self.refinenet[2], training, xs, Spatial(rn[1])))
        Path3(log, upd, xs, p) ==
            IF p.err # NoErr
            THEN Raised(p.err, Append(log, Stage(3, xs, p)), upd \cup BnUnits(3, p))
            ELSE Run2(Append(log, Stage(3, xs, p)), upd \cup BnUnits(3, p),
                      <<p.shape, rn[2]>>)
        Run3(log, upd, xs) ==
            Path3(log, upd, xs,
                  FeatureFusionBlock_forward(self.refinenet[3], training, xs, Spatial(rn[2])))
        Path4(log, upd, xs, p) ==
            IF p.err # NoErr
            THEN Raised(p.err, Append(log, Stage(4, xs, p)), upd \cup BnUnits(4, p))
            ELSE Run3(Append(log, Stage(4, xs, p)), upd \cup BnUnits(4, p),
                      <<p.shape, rn[3]>>)
        Run4(log, upd, xs) ==
            Path4(log, upd, xs,
                  FeatureFusionBlock_forward(self.refinenet[4], training, xs, Spatial(rn[3])))
    IN  Run4(<<>>, {}, <<rn[4]>>)

\* layer_k_rn = self.scratch.layerk_rn(layer_k) for k = 1..4, then the cascade
Align(self, training, l, rn, patch_h, patch_w, v) ==
    IF \E k \in 1..4 : rn[k].err # NoErr
    THEN Aborted(rn[CHOOSE k \in 1..4 : rn[k].err # NoErr
                                        /\ \A j \in 1..(k - 1) : rn[j].err = NoErr].err, l)
    ELSE Cascade(self, training, [k \in 1..4 |-> rn[k].shape], patch_h, patch_w, v)

\* DPTHead.forward(out_features, patch_h, patch_w)
DPTHead_forward(self, training, out_features, patch_h, patch_w, v) ==
    LET Unpack(pre) ==
            IF pre.err # NoErr THEN Aborted(pre.err, pre.out)
            ELSE IF Len(pre.out) # 4 THEN Aborted("ValueError", pre.out)
            ELSE Align(self, training, pre.out,
                       [k \in 1..4 |-> ScratchLayer(self, k, pre.out[k])],
                       patch_h, patch_w, v)
    IN  Unpack(Preprocess(self, out_features, patch_h, patch_w, 1, <<>>))

(***************************************************************************)
(* DAv2_Head                                                               *)
(***************************************************************************)

\* DAv2_Head.__init__ (every encoder name maps to the same embedding width)
DAv2_Head_init(features, out_channels, use_bn, use_clstoken) ==
    DPTHead_init(EmbdDim, features, use_bn, out_channels, use_clstoken)

\* depth.squeeze(1)
Squeeze1(x) ==
    IF Len(x) >= 2 /\ x[2] = 1
    THEN [i \in 1..(Len(x) - 1) |-> IF i = 1 THEN x[1] ELSE x[i + 1]]
    ELSE x

\* DAv2_Head.forward(features)
DAv2_Head_forward(self, training, features, v) ==
    LET Rectify(depth) ==
            IF depth.err # NoErr THEN depth
            ELSE [depth EXCEPT !.vmin = ReLU(depth.vmin), !.shape = Squeeze1(depth.shape)]
    IN  Rectify(DPTHead_forward(self, training, features,
                                ImageSide \div PatchSize, ImageSide \div PatchSize, v))

\* depth[:, None]
Unsqueeze1(x) ==
    [i \in 1..(Len(x) + 1) |-> IF i = 1 THEN x[1] ELSE IF i = 2 THEN 1 ELSE x[i - 1]]

\* an inference entry point that takes image_size as (w, h)
DAv2_Head_infer_feats_swapped(self, training, feats, image_size, v) ==
    LET First(depth, up) ==
            IF up.err # NoErr THEN [depth EXCEPT !.err = up.err, !.shape = <<>>]
            ELSE [depth EXCEPT !.shape = <<up.shape[3], up.shape[4]>>]
        Resize(depth) ==
            IF depth.err # NoErr THEN depth
            ELSE First(depth, InterpolateSize(Unsqueeze1(depth.shape),
                                              <<image_size[2], image_size[1]>>))
    IN  Resize(DAv2_Head_forward(self, training, feats, v))

\* DAv2_Head.infer_feats(feats, image_size): interpolate to (h, w), take [0, 0]
DAv2_Head_infer_feats(self, training, feats, image_size, v) ==
    LET First(depth, up) ==
            IF up.err # NoErr THEN [depth EXCEPT !.err = up.err, !.shape = <<>>]
            ELSE [depth EXCEPT !.shape = <<up.shape[3], up.shape[4]>>]
        Resize(depth) ==
            IF depth.err # NoErr THEN depth
            ELSE First(depth, InterpolateSize(Unsqueeze1(depth.shape),
                                              <<image_size[1], image_size[2]>>))
    IN  Resize(DAv2_Head_forward(self, training, feats, v))

(***************************************************************************)
(* State of the depth head and its operations.                             *)
(*   head : the DAv2_Head instance (status "none" when construction        *)
(*          raised or nothing was built); obj is its depth_head, training  *)
(*          the nn.Module mode, bn[<<r, u>>] the num_batches_tracked       *)
(*          buffer of the batch norms of refinenet r, resConfUnit u.       *)
(*   ret  : the call the caller is looking at: its arguments and what it   *)
(*          returned or raised; RetNone once the caller has dropped it.    *)
(***************************************************************************)

BnIds == (1..4) \X (1..2)

NoHead == [status |-> "none", obj |-> None, training |-> TRUE, bn |-> [x \in BnIds |-> 0]]

RetNone ==
    [op |-> "none", err |-> NoErr, feats |-> <<>>, B |-> 0, patch |-> <<>>,
     image_size |-> <<>>, shape |-> <<>>, vmin |-> 0, layers |-> <<>>,
     stages |-> <<>>, out_channels |-> <<>>, features |-> 0, expand |-> FALSE,
     scratch |-> <<>>]

\* inputs
Batches == 1..MaxBatch

Flags == BOOLEAN

FeatureWidths == {128, 256}

\* out_channels of length 3, 4 and 5
OutChannelLists ==
    {SubSeq(DefaultOutChannels, 1, 3), DefaultOutChannels, Append(DefaultOutChannels, 1024)}

Values == (0 - MaxVal)..MaxVal

\* token counts of the entries handed in: n entries, entry bad (if any) with
\* one token too many
TokenCounts(N) ==
    {[i \in 1..n |-> IF i = bad THEN N + 1 ELSE N] : n \in 0..MaxEntries, bad \in 0..MaxEntries}

\* the (tokens, class token) pairs with these token counts
Entries(B, counts) ==
    [i \in 1..Len(counts) |-> [x |-> <<B, counts[i], EmbdDim>>, cls |-> <<B, EmbdDim>>]]

\* the batch-norm buffers after a forward pass that updated the units upd
Tracked(bn, upd) == [x \in BnIds |-> IF x \in upd THEN bn[x] + 1 ELSE bn[x]]

\* the caller holds no result
Idle == ret.op = "none"

\* the counters are capped to keep the state space finite
CanRun == Idle /\ head.status = "ok" /\ \A x \in BnIds : head.bn[x] < MaxTracked

Init ==
    /\ head = NoHead
    /\ ret = RetNone

\* head = DAv2_Head(features=..., out_channels=..., use_bn=..., use_clstoken=...)
Constructed(r, features, out_channels) ==
        /\ Idle
        /\ head' = IF r.err = NoErr
                   THEN [status |-> "ok", obj |-> r.obj, training |-> TRUE,
                         bn |-> [x \in BnIds |-> 0]]
                   ELSE NoHead
        /\ ret' = [RetNone EXCEPT !.op = "DAv2_Head.__init__", !.err = r.err,
                                  !.out_channels = out_channels, !.features = features,
                                  !.scratch = IF r.err = NoErr THEN r.obj.scratch ELSE <<>>]

Construct(features, out_channels, use_bn, use_clstoken) ==
    Constructed(DAv2_Head_init(features, out_channels, use_bn, use_clstoken),
                features, out_channels)

\* head.train(mode) / head.eval()
Train(mode) ==
    /\ Idle
    /\ head.status = "ok"
    /\ head.training # mode
    /\ head' = [head EXCEPT !.training = mode]
    /\ UNCHANGED ret

\* what a forward call leaves in ret
Returned(op, r, B, counts, patch, image_size) ==
    [RetNone EXCEPT !.op = op, !.err = r.err, !.B = B, !.feats = counts,
                    !.patch = patch, !.image_size = image_size, !.shape = r.shape,
                    !.vmin = r.vmin, !.layers = r.layers, !.stages = r.stages]

\* the effect of a forward call that ended as r: the batch norms it ran in
\* training mode have updated their buffers, and the caller holds r
Finish(op, r, B, counts, patch, image_size) ==
    /\ head' = [head EXCEPT !.bn = Tracked(head.bn, r.upd)]
    /\ ret' = Returned(op, r, B, counts, patch, image_size)

\* head.depth_head(out_features, patch_h, patch_w)
CallDPTHead(B, counts, patch_h, patch_w, v) ==
    /\ CanRun
    /\ Finish("DPTHead.forward",
              DPTHead_forward(head.obj, head.training, Entries(B, counts), patch_h, patch_w, v),
              B, counts, <<patch_h, patch_w>>, <<>>)

\* head(features)
CallForward(B, counts, v) ==
    /\ CanRun
    /\ Finish("DAv2_Head.forward",
              DAv2_Head_forward(head.obj, head.training, Entries(B, counts), v),
              B, counts, <<>>, <<>>)

\* head.infer_feats(feats, image_size)
CallInferFeats(B, counts, image_size, v) ==
    /\ CanRun
    /\ Finish("DAv2_Head.infer_feats",
              DAv2_Head_infer_feats(head.obj, head.training, Entries(B, counts), image_size, v),
              B, counts, <<>>, image_size)

\* _make_scratch(in_shape, out_shape, groups=1, expand=expand)
CallMakeScratch(in_shape, out_shape, expand) ==
    /\ Idle
    /\ ret' = [RetNone EXCEPT !.op = "_make_scratch",
                              !.err = make_scratch(in_shape, out_shape, expand).err,
                              !.out_channels = in_shape, !.features = out_shape,
                              !.expand = expand,
                              !.scratch = make_scratch(in_shape, out_shape, expand).layers]
    /\ UNCHANGED head

\* the caller drops the result it holds
Drop ==
    /\ ~Idle
    /\ ret' = RetNone
    /\ UNCHANGED head

ConstructAny ==
    Idle /\ \E f \in FeatureWidths, oc \in OutChannelLists, bn \in Flags, cls \in Flags :
        Construct(f, oc, bn, cls)

TrainAny == Idle /\ \E mode \in Flags : Train(mode)

DPTHeadAny ==
    CanRun /\ \E B \in Batches, h \in 1..MaxPatch, w \in 1..MaxPatch, v \in Values :
        \E counts \in TokenCounts(h * w) : CallDPTHead(B, counts, h, w, v)

ForwardAny ==
    CanRun /\ \E B \in Batches, v \in Values :
        \E counts \in TokenCounts((ImageSide \div PatchSize) * (ImageSide \div PatchSize)) :
            CallForward(B, counts, v)

InferFeatsAny ==
    CanRun /\ \E B \in Batches, v \in Values, H \in 1..MaxOut, W \in 1..MaxOut :
        \E counts \in TokenCounts((ImageSide \div PatchSize) * (ImageSide \div PatchSize)) :
            CallInferFeats(B, counts, <<H, W>>, v)

MakeScratchAny ==
    Idle /\ \E oc \in OutChannelLists, f \in FeatureWidths, e \in Flags : CallMakeScratch(oc, f, e)

Others == UNCHANGED <<fusion, fret, lang, lret>>

NextDPT ==
    \/ ConstructAny /\ Others
    \/ TrainAny /\ Others
    \/ DPTHeadAny /\ Others
    \/ MakeScratchAny /\ Others
    \/ Drop /\ Others

NextDAv2 ==
    \/ ConstructAny /\ Others
    \/ TrainAny /\ Others
    \/ ForwardAny /\ Others
    \/ InferFeatsAny /\ Others
    \/ Drop /\ Others

(***************************************************************************)
(* A FeatureFusionBlock on its own.                                        *)
(*   fusion : the block (obj), its nn.Module mode and the                  *)
(*            num_batches_tracked buffers of resConfUnit1 and 2.           *)
(*   fret   : the forward call the caller is looking at.                   *)
(***************************************************************************)

NoFusion == [status |-> "none", obj |-> None, training |-> TRUE, bn |-> [u \in 1..2 |-> 0]]

FretNone == [op |-> "none", err |-> NoErr, xs |-> <<>>, size |-> None, shape |-> <<>>]

\* spatial sizes, for tensors and for the size arguments
Sides == 1..MaxSide

Sizes == {None} \cup {<<a, b>> : a \in Sides, b \in Sides}

\* the tensors handed to forward: none, a deep path alone, or a deep path
\* with a skip tensor of the same shape or one row taller
FusionInputs ==
    {<<>>}
    \cup {<<x>> : x \in Batches \X FeatureWidths \X Sides \X Sides}
    \cup {<<x, x>> : x \in Batches \X FeatureWidths \X Sides \X Sides}
    \cup {<<x, [x EXCEPT ![3] = x[3] + 1]>> : x \in Batches \X FeatureWidths \X Sides \X Sides}

FusionIdle == fret.op = "none"

FusionCanRun ==
    FusionIdle /\ fusion.status = "ok" /\ \A u \in 1..2 : fusion.bn[u] < MaxTracked

\* fusion = FeatureFusionBlock(features, activation, bn=bn, expand=expand, size=size)
FusionConstruct(features, bn, expand, size) ==
    /\ FusionIdle
    /\ fusion' = [status |-> "ok", obj |-> FeatureFusionBlock_init(features, bn, expand, size),
                  training |-> TRUE, bn |-> [u \in 1..2 |-> 0]]
    /\ UNCHANGED fret

\* fusion.train(mode) / fusion.eval()
FusionTrain(mode) ==
    /\ FusionIdle
    /\ fusion.status = "ok"
    /\ fusion.training # mode
    /\ fusion' = [fusion EXCEPT !.training = mode]
    /\ UNCHANGED fret

\* the effect of a forward call that ended as r
FusionFinish(r, xs, size) ==
    /\ fusion' = [fusion EXCEPT !.bn = [u \in 1..2 |-> IF u \in r.upd THEN fusion.bn[u] + 1
                                                        ELSE fusion.bn[u]]]
    /\ fret' = [op |-> "FeatureFusionBlock.forward", err |-> r.err, xs |-> xs,
                size |-> size, shape |-> r.shape]

\* fusion(*xs, size=size)
FusionForward(xs, size) ==
    /\ FusionCanRun
    /\ FusionFinish(FeatureFusionBlock_forward(fusion.obj, fusion.training, xs, size), xs, size)

\* the caller drops the result it holds
FusionDrop ==
    /\ ~FusionIdle
    /\ fret' = FretNone
    /\ UNCHANGED fusion

FusionConstructAny ==
    FusionIdle /\ \E f \in FeatureWidths, bn \in Flags, e \in Flags, size \in Sizes :
        FusionConstruct(f, bn, e, size)

FusionTrainAny == FusionIdle /\ \E mode \in Flags : FusionTrain(mode)

FusionForwardAny == FusionCanRun /\ \E xs \in FusionInputs, size \in Sizes : FusionForward(xs, size)

NextFusion ==
    \/ FusionConstructAny /\ UNCHANGED <<head, ret, lang, lret>>
    \/ FusionTrainAny /\ UNCHANGED <<head, ret, lang, lret>>
    \/ FusionForwardAny /\ UNCHANGED <<head, ret, lang, lret>>
    \/ FusionDrop /\ UNCHANGED <<head, ret, lang, lret>>

(***************************************************************************)
(* The language-feature heads.                                             *)
(*   A tensor here is [shape, term]: term names the modules that produced  *)
(*   it from the caller's inputs (all of them deterministic), so two       *)
(*   tensors with the same term are equal.                                 *)
(***************************************************************************)

RequiredKeys == {"output_dim", "depth", "dim_head", "num_heads", "num_tokens", "ff_mult"}

\* proj_config[key]
Lookup(proj_config, key) ==
    IF proj_config.none THEN [err |-> "TypeError", val |-> 0]
    ELSE IF key \notin DOMAIN proj_config.opts THEN [err |-> "KeyError", val |-> 0]
    ELSE [err |-> NoErr, val |-> proj_config.opts[key]]

\* the first exception raised by reading keys in this order, if any
RECURSIVE FirstError(_, _, _)
FirstError(proj_config, keys, i) ==
    IF i > Len(keys) THEN NoErr
    ELSE IF Lookup(proj_config, keys[i]).err # NoErr THEN Lookup(proj_config, keys[i]).err
    ELSE FirstError(proj_config, keys, i + 1)

\* build_mlp(in_hidden_size, hidden_size)
build_mlp(in_hidden_size, hidden_size) ==
    <<[op |-> "Linear", fin |-> in_hidden_size, fout |-> hidden_size],
      [op |-> "ReLU", fin |-> 0, fout |-> 0],
      [op |-> "Linear", fin |-> hidden_size, fout |-> hidden_size]>>

\* nn.Sequential.forward of the perceptron called name, on tensor x
RECURSIVE Sequential(_, _, _)
Sequential(modules, i, x) ==
    IF i > Len(modules) \/ x.err # NoErr THEN x
    ELSE IF modules[i].op = "Linear"
    THEN Sequential(modules, i + 1, Linear(x.shape, modules[i].fin, modules[i].fout))
    ELSE Sequential(modules, i + 1, x)

\* self.<name>(x)
Apply(self, name, x) ==
    IF name \notin DOMAIN self.linear THEN [err |-> "AttributeError", shape |-> <<>>, term |-> <<>>]
    ELSE [err   |-> Sequential(self.linear[name], 1, Ok(x.shape)).err,
          shape |-> Sequential(self.linear[name], 1, Ok(x.shape)).shape,
          term  |-> <<name, x.term>>]

\* Resampler(...) and TaskTokenResampler(...): the attributes the heads rely on
Resampler_init(kind, dim, depth, dim_head, heads, num_queries, embedding_dim, output_dim, ff_mult) ==
    [kind |-> kind, dim |-> dim, depth |-> depth, dim_head |-> dim_head, heads |-> heads,
     num_queries |-> num_queries, embedding_dim |-> embedding_dim,
     output_dim |-> output_dim, ff_mult |-> ff_mult]

\* self.projector(llm_feats [, latents]): num_queries output tokens of width
\* output_dim per batch element
Resampler_forward(projector, inputs) ==
    IF Len(inputs[1].shape) # 3 \/ inputs[1].shape[3] # projector.embedding_dim
    THEN [err |-> "RuntimeError", shape |-> <<>>, term |-> <<>>]
    ELSE [err   |-> NoErr,
          shape |-> <<inputs[1].shape[1], projector.num_queries, projector.output_dim>>,
          term  |-> <<"projector">> \o [i \in 1..Len(inputs) |-> inputs[i].term]]

\* the list a forward builds from the tensors feats, or the first exception
Pairs(feats) ==
    IF \E i \in 1..Len(feats) : feats[i].err # NoErr
    THEN [err |-> feats[CHOOSE i \in 1..Len(feats) :
                          feats[i].err # NoErr /\ \A j \in 1..(i - 1) : feats[j].err = NoErr].err,
          out |-> <<>>]
    ELSE [err |-> NoErr,
          out |-> [i \in 1..Len(feats) |-> <<[shape |-> feats[i].shape, term |-> feats[i].term], None>>]]

\* DepthProbeHead.__init__
DepthProbeHead_init(llm_hidden_size, proj_config) ==
    IF Lookup(proj_config, "output_dim").err # NoErr
    THEN [err |-> Lookup(proj_config, "output_dim").err, obj |-> None]
    ELSE [err |-> NoErr,
          obj |-> [kind |-> "DepthProbeHead",
                   use_intermediate_depth |-> FALSE,
                   projector |-> None,
                   linear |-> [n \in {"linear_1", "linear_2", "linear_3", "linear_4"} |->
                                 build_mlp(llm_hidden_size, proj_config.opts["output_dim"])]]]

\* a forward that runs each of the four perceptrons once
DepthProbeHead_forward_four(self, llm_feats) ==
    Pairs(<<Apply(self, "linear_1", llm_feats), Apply(self, "linear_2", llm_feats),
            Apply(self, "linear_3", llm_feats), Apply(self, "linear_4", llm_feats)>>)

\* DepthProbeHead.forward(llm_feats)
DepthProbeHead_forward(self, llm_feats) ==
    Pairs(<<Apply(self, "linear_1", llm_feats), Apply(self, "linear_1", llm_feats),
            Apply(self, "linear_2", llm_feats), Apply(self, "linear_3", llm_feats)>>)

\* the perceptrons linear_1 .. linear_3 of the resampler heads
IntermediateHeads(use_intermediate_depth, output_dim) ==
    IF use_intermediate_depth
    THEN [n \in {"linear_1", "linear_2", "linear_3"} |-> build_mlp(output_dim, output_dim)]
    ELSE [n \in {} |-> <<>>]

\* a constructor that falls back to a default when ff_mult is absent
DepthHead_init_default_ff(llm_hidden_size, proj_config, use_intermediate_depth) ==
    LET keys == <<"output_dim", "depth", "dim_head", "num_heads", "num_tokens", "output_dim">>
    IN  IF FirstError(proj_config, keys, 1) # NoErr
        THEN [err |-> FirstError(proj_config, keys, 1), obj |-> None]
        ELSE [err |-> NoErr,
              obj |-> [kind |-> "DepthHead",
                       use_intermediate_depth |-> use_intermediate_depth,
                       projector |-> Resampler_init("Resampler",
                           proj_config.opts["output_dim"], proj_config.opts["depth"],
                           proj_config.opts["dim_head"], proj_config.opts["num_heads"],
                           proj_config.opts["num_tokens"], llm_hidden_size,
                           proj_config.opts["output_dim"], 4),
                       linear |-> IntermediateHeads(use_intermediate_depth,
                                                    proj_config.opts["output_dim"])]]

\* DepthHead.__init__
DepthHead_init(llm_hidden_size, proj_config, use_intermediate_depth) ==
    LET keys == <<"output_dim", "depth", "dim_head", "num_heads", "num_tokens",
                  "output_dim", "ff_mult">>
    IN  IF FirstError(proj_config, keys, 1) # NoErr
        THEN [err |-> FirstError(proj_config, keys, 1), obj |-> None]
        ELSE [err |-> NoErr,
              obj |-> [kind |-> "DepthHead",
                       use_intermediate_depth |-> use_intermediate_depth,
                       projector |-> Resampler_init("Resampler",
                           proj_config.opts["output_dim"], proj_config.opts["depth"],
                           proj_config.opts["dim_head"], proj_config.opts["num_heads"],
                           proj_config.opts["num_tokens"], llm_hidden_size,
                           proj_config.opts["output_dim"], proj_config.opts["ff_mult"]),
                       linear |-> IntermediateHeads(use_intermediate_depth,
                                                    proj_config.opts["output_dim"])]]

\* TaskTokenDepthHead.__init__
TaskTokenDepthHead_init(proj_config, llm_hidden_size, use_intermediate_depth) ==
    LET keys == <<"depth", "dim_head", "num_heads", "num_tokens", "output_dim", "ff_mult">>
    IN  IF FirstError(proj_config, keys, 1) # NoErr
        THEN [err |-> FirstError(proj_config, keys, 1), obj |-> None]
        ELSE [err |-> NoErr,
              obj |-> [kind |-> "TaskTokenDepthHead",
                       use_intermediate_depth |-> use_intermediate_depth,
                       projector |-> Resampler_init("TaskTokenResampler",
                           llm_hidden_size, proj_config.opts["depth"],
                           proj_config.opts["dim_head"], proj_config.opts["num_heads"],
                           proj_config.opts["num_tokens"], llm_hidden_size,
                           proj_config.opts["output_dim"], proj_config.opts["ff_mult"]),
                       linear |-> IntermediateHeads(use_intermediate_depth,
                                                    proj_config.opts["output_dim"])]]

\* a features list with the primary output in front
Features_primary_first(self, visual_feats) ==
    IF visual_feats.err # NoErr THEN [err |-> visual_feats.err, out |-> <<>>]
    ELSE IF self.use_intermediate_depth
    THEN Pairs(<<visual_feats, Apply(self, "linear_1", visual_feats),
                 Apply(self, "linear_2", visual_feats), Apply(self, "linear_3", visual_feats)>>)
    ELSE Pairs(<<visual_feats>>)

\* the features list built from visual_feats
Features(self, visual_feats) ==
    IF visual_feats.err # NoErr THEN [err |-> visual_feats.err, out |-> <<>>]
    ELSE IF self.use_intermediate_depth
    THEN Pairs(<<Apply(self, "linear_1", visual_feats), Apply(self, "linear_2", visual_feats),
                 Apply(self, "linear_3", visual_feats), visual_feats>>)
    ELSE Pairs(<<visual_feats>>)

\* DepthHead.forward(llm_feats)
DepthHead_forward(self, llm_feats) ==
    Features(self, Resampler_forward(self.projector, <<llm_feats>>))

\* TaskTokenDepthHead.forward(llm_feats, latents)
TaskTokenDepthHead_forward(self, llm_feats, latents) ==
    Features(self, Resampler_forward(self.projector, <<llm_feats, latents>>))

(***************************************************************************)
(*   lang : the language-feature head the caller holds (status "none"      *)
(*          when construction raised or nothing was built), with the       *)
(*          proj_config it was built from.                                 *)
(*   lret : the call the caller is looking at.                             *)
(***************************************************************************)

NoLang == [status |-> "none", obj |-> None, proj_config |-> <<>>]

LretNone ==
    [op |-> "none", err |-> NoErr, kind |-> "none", missing |-> {}, config_none |-> FALSE,
     use_intermediate_depth |-> FALSE, input |-> <<>>, out |-> <<>>]

OutputDims == 2..MaxDim

\* a complete proj_config with output_dim = d
FullConfig(d) ==
    [output_dim |-> d, depth |-> 1, dim_head |-> 2, num_heads |-> 2, num_tokens |-> 3,
     ff_mult |-> 1]

\* proj_config with the options of FullConfig(d) but those in missing
Config(d, missing) ==
    [none |-> FALSE, opts |-> [k \in RequiredKeys \ missing |-> FullConfig(d)[k]]]

\* proj_config=None, the default of the three constructors
ConfigNone == [none |-> TRUE, opts |-> <<>>]

\* the bundles tried: complete, one required option absent, or None
Configs ==
    {Config(d, {}) : d \in OutputDims}
    \cup {Config(d, {k}) : d \in OutputDims, k \in RequiredKeys}
    \cup {ConfigNone}

\* widths of the hidden states handed in: the head's, and another
HiddenSizes == {LlmHiddenSize, EmbdDim}

\* language-model hidden states: (B, hidden), (B, seq, hidden)
LlmFeats ==
    {[shape |-> <<B, d>>, term |-> "llm_feats"] : B \in Batches, d \in HiddenSizes}
    \cup {[shape |-> <<B, n, d>>, term |-> "llm_feats"] :
              B \in Batches, n \in 1..MaxSeq, d \in HiddenSizes}

Latents == [shape |-> <<1, 3, LlmHiddenSize>>, term |-> "latents"]

LangIdle == lret.op = "none"

\* the effect of a constructor that ended as r
LangConstructed(kind, r, proj_config, u) ==
    /\ LangIdle
    /\ lang' = IF r.err = NoErr
               THEN [status |-> "ok", obj |-> r.obj, proj_config |-> proj_config.opts]
               ELSE NoLang
    /\ lret' = [LretNone EXCEPT !.op = "__init__", !.err = r.err, !.kind = kind,
                                !.missing = IF proj_config.none THEN RequiredKeys
                                            ELSE RequiredKeys \ DOMAIN proj_config.opts,
                                !.config_none = proj_config.none,
                                !.use_intermediate_depth = u]

\* lang = DepthProbeHead(proj_config=proj_config)
ConstructProbe(proj_config) ==
    LangConstructed("DepthProbeHead", DepthProbeHead_init(LlmHiddenSize, proj_config), proj_config, FALSE)

\* lang = DepthHead(proj_config=proj_config, use_intermediate_depth=u)
ConstructDepthHead(proj_config, u) ==
    LangConstructed("DepthHead", DepthHead_init(LlmHiddenSize, proj_config, u), proj_config, u)

\* lang = TaskTokenDepthHead(proj_config=proj_config, use_intermediate_depth=u)
ConstructTaskToken(proj_config, u) ==
    LangConstructed("TaskTokenDepthHead",
                    TaskTokenDepthHead_init(proj_config, LlmHiddenSize, u), proj_config, u)

\* the effect of a forward call that ended as r
LangReturned(r, llm_feats) ==
    /\ lret' = [LretNone EXCEPT !.op = "forward", !.err = r.err, !.kind = lang.obj.kind,
                                !.input = llm_feats.shape, !.out = r.out]
    /\ UNCHANGED lang

\* lang(llm_feats) on a DepthProbeHead
ForwardProbe(llm_feats) ==
    /\ LangIdle /\ lang.status = "ok" /\ lang.obj.kind = "DepthProbeHead"
    /\ LangReturned(DepthProbeHead_forward(lang.obj, llm_feats), llm_feats)

\* lang(llm_feats) on a DepthHead
ForwardDepthHead(llm_feats) ==
    /\ LangIdle /\ lang.status = "ok" /\ lang.obj.kind = "DepthHead"
    /\ LangReturned(DepthHead_forward(lang.obj, llm_feats), llm_feats)

\* lang(llm_feats, latents) on a TaskTokenDepthHead
ForwardTaskToken(llm_feats, latents) ==
    /\ LangIdle /\ lang.status = "ok" /\ lang.obj.kind = "TaskTokenDepthHead"
    /\ LangReturned(TaskTokenDepthHead_forward(lang.obj, llm_feats, latents), llm_feats)

\* the caller drops the result it holds
LangDrop ==
    /\ ~LangIdle
    /\ lret' = LretNone
    /\ UNCHANGED lang

NextLang ==
    \/ (LangIdle /\ \E c \in Configs : ConstructProbe(c)) /\ UNCHANGED <<head, ret, fusion, fret>>
    \/ (LangIdle /\ \E c \in Configs, u \in Flags : ConstructDepthHead(c, u)) /\ UNCHANGED <<head, ret, fusion, fret>>
    \/ (LangIdle /\ \E c \in Configs, u \in Flags : ConstructTaskToken(c, u)) /\ UNCHANGED <<head, ret, fusion, fret>>
    \/ (LangIdle /\ \E x \in LlmFeats : ForwardProbe(x)) /\ UNCHANGED <<head, ret, fusion, fret>>
    \/ (LangIdle /\ \E x \in LlmFeats : ForwardDepthHead(x)) /\ UNCHANGED <<head, ret, fusion, fret>>
    \/ (LangIdle /\ \E x \in LlmFeats : ForwardTaskToken(x, Latents)) /\ UNCHANGED <<head, ret, fusion, fret>>
    \/ LangDrop /\ UNCHANGED <<head, ret, fusion, fret>>

InitAll ==
    /\ Init
    /\ fusion = NoFusion
    /\ fret = FretNone
    /\ lang = NoLang
    /\ lret = LretNone

SpecDPT == InitAll /\ [][NextDPT]_vars

SpecDAv2 == InitAll /\ [][NextDAv2]_vars

SpecFusion == InitAll /\ [][NextFusion]_vars

SpecLang == InitAll /\ [][NextLang]_vars

(***************************************************************************)
(* Properties of the depth head.                                           *)
(***************************************************************************)

\* the caller kept the contract of DPTHead.forward: exactly 4 scale entries,
\* each with N tokens
InContract(N) == Len(ret.feats) = 4 /\ \A i \in 1..Len(ret.feats) : ret.feats[i] = N

\* C1: DAv2_Head.forward on 4 scale entries of 576 tokens returns, for every
\* batch size B and every configuration of use_bn and use_clstoken, a depth
\* map of shape (B, 336, 336) whose values are all >= 0.
C1_DepthMap ==
    (ret.op = "DAv2_Head.forward" /\ InContract(576)) =>
        /\ ret.err = NoErr
        /\ ret.shape = <<ret.B, 336, 336>>
        /\ ret.vmin >= 0

C1_Witness ==
    /\ ret.op = "DAv2_Head.forward"
    /\ InContract(576)
    /\ ret.err = NoErr
    /\ ret.B = 2
    /\ head.obj.use_bn
    /\ head.obj.use_clstoken

\* C2: DAv2_Head.infer_feats returns a result of shape exactly (H, W) for
\* the requested image_size (H, W), whatever the batch size, the 24x24 patch
\* grid and the 336x336 intermediate depth map.
C2_InferShape ==
    (ret.op = "DAv2_Head.infer_feats" /\ InContract(576)) =>
        /\ ret.err = NoErr
        /\ ret.shape = ret.image_size

C2_Witness ==
    /\ ret.op = "DAv2_Head.infer_feats"
    /\ InContract(576)
    /\ ret.err = NoErr
    /\ ret.image_size = <<1, 2>>
    /\ ret.shape = <<1, 2>>
    /\ ret.B = 2

\* C3: DAv2_Head.infer_feats mutates no persistent state: in every
\* configuration and mode the head's parameters and buffers are the same
\* after the call as before it.
C3_InferFeatsFrame ==
    [][(ret.op = "none" /\ ret'.op = "DAv2_Head.infer_feats") => head' = head]_vars

\* infer_feats leaves the head as it was when the head is in eval mode or
\* has no batch norm
C3_InferFeatsFrameEval ==
    [][(ret.op = "none" /\ ret'.op = "DAv2_Head.infer_feats"
        /\ (~head.training \/ ~head.obj.use_bn)) => head' = head]_vars

\* C7: DPTHead.forward raises, and returns nothing, whenever the number of
\* scale entries is not 4 or an entry's token count is not patch_h * patch_w.
C7_FailFast ==
    (ret.op = "DPTHead.forward" /\ ~InContract(ret.patch[1] * ret.patch[2])) =>
        /\ ret.err # NoErr
        /\ ret.shape = <<>>

C7_Witness ==
    /\ ret.op = "DPTHead.forward"
    /\ Len(ret.feats) = 4
    /\ ret.feats[3] # ret.patch[1] * ret.patch[2]
    /\ ret.err = "RuntimeError"
    /\ ret.shape = <<>>

\* the scratch stage holds one alignment convolution per entry of
\* out_channels, each from that scale's channel count to width features
ScratchAligned(scratch, out_channels, features) ==
    /\ Len(scratch) = Len(out_channels)
    /\ \A k \in 1..Len(scratch) :
           scratch[k].cin = out_channels[k] /\ scratch[k].cout = features

\* C8 as stated: a head with an output channel list of length 3 or 4 can be
\* constructed, and its scratch stage holds that many alignment convolutions
\* of the configured feature width.
C8_ThreeOrFour ==
    (ret.op = "DAv2_Head.__init__" /\ Len(ret.out_channels) \in {3, 4}) =>
        /\ ret.err = NoErr
        /\ head.status = "ok"
        /\ ScratchAligned(head.obj.scratch, ret.out_channels, ret.features)

\* C8: a head with an output channel list of length 4 can be constructed and
\* its scratch stage holds 4 alignment convolutions, one per scale, of the
\* configured feature width; with a list of length 3 the construction raises
\* IndexError and leaves no head; _make_scratch itself, without expand,
\* builds one such convolution per entry for 3 or 4 entries.
C8_FourOnly ==
    /\ (ret.op = "DAv2_Head.__init__" /\ Len(ret.out_channels) = 4) =>
           /\ ret.err = NoErr
           /\ head.status = "ok"
           /\ ScratchAligned(head.obj.scratch, ret.out_channels, ret.features)
    /\ (ret.op = "DAv2_Head.__init__" /\ Len(ret.out_channels) = 3) =>
           /\ ret.err = "IndexError"
           /\ head.status = "none"
    /\ (ret.op = "_make_scratch" /\ ~ret.expand /\ Len(ret.out_channels) \in {3, 4}) =>
           /\ ret.err = NoErr
           /\ ScratchAligned(ret.scratch, ret.out_channels, ret.features)

C8_Witness ==
    /\ ret.op = "DAv2_Head.__init__"
    /\ Len(ret.out_channels) = 4
    /\ head.status = "ok"
    /\ Len(head.obj.scratch) = 4

\* ceil(n / 2)
HalfUp(n) == (n + 1) \div 2

SkipMatches == Len(fret.xs) = 2 => fret.xs[2] = fret.xs[1]

\* C6: FeatureFusionBlock.forward sizes its output by strict precedence: the
\* size argument when given, also over a construction-time size; else the
\* construction-time size; else exactly double the input's height and
\* width.  Without expand the output has the input's channel count, with or
\* without a skip tensor.
C6_SizePrecedence ==
    (fret.op = "FeatureFusionBlock.forward" /\ fret.err = NoErr /\ SkipMatches) =>
        /\ fret.size # None => Spatial(fret.shape) = fret.size
        /\ (fret.size = None /\ fusion.obj.size # None) =>
               Spatial(fret.shape) = fusion.obj.size
        /\ (fret.size = None /\ fusion.obj.size = None) =>
               Spatial(fret.shape) = <<2 * fret.xs[1][3], 2 * fret.xs[1][4]>>
        /\ ~fusion.obj.expand => fret.shape[2] = fret.xs[1][2]
        /\ fret.shape[1] = fret.xs[1][1]

C6_Witness ==
    /\ fret.op = "FeatureFusionBlock.forward"
    /\ fret.err = NoErr
    /\ Len(fret.xs) = 2
    /\ SkipMatches
    /\ fret.size = <<1, 2>>
    /\ fusion.obj.size = <<2, 1>>
    /\ ~fusion.obj.expand
    /\ fret.shape = <<fret.xs[1][1], fret.xs[1][2], 1, 2>>

(***************************************************************************)
(* Properties of the language-feature heads.                               *)
(***************************************************************************)

\* every pair of the returned list has None as its second component
AllNone == \A i \in 1..Len(lret.out) : lret.out[i][2] = None

\* C4: DepthProbeHead.forward on (B, hidden) returns exactly 4 (feature,
\* None) pairs, each feature of shape (B, D); entries 0 and 1 both come from
\* linear_1 (and are equal), entry 2 from linear_2, entry 3 from linear_3;
\* linear_4 is constructed and contributes to no output.
C4_ProbeOutputs ==
    (lret.op = "forward" /\ lret.kind = "DepthProbeHead"
     /\ Len(lret.input) = 2 /\ lret.input[2] = LlmHiddenSize) =>
        /\ lret.err = NoErr
        /\ Len(lret.out) = 4
        /\ AllNone
        /\ \A i \in 1..4 :
               /\ lret.out[i][1].shape = <<lret.input[1], lang.proj_config["output_dim"]>>
               /\ lret.out[i][1].term[1] # "linear_4"
        /\ lret.out[1][1].term = <<"linear_1", "llm_feats">>
        /\ lret.out[2][1] = lret.out[1][1]
        /\ lret.out[3][1].term = <<"linear_2", "llm_feats">>
        /\ lret.out[4][1].term = <<"linear_3", "llm_feats">>
        /\ "linear_4" \in DOMAIN lang.obj.linear

C4_Witness ==
    /\ lret.op = "forward"
    /\ lret.kind = "DepthProbeHead"
    /\ lret.input = <<2, LlmHiddenSize>>
    /\ lret.err = NoErr
    /\ Len(lret.out) = 4
    /\ lret.out[1][1].shape = <<2, 3>>

\* C5: DepthHead.forward and TaskTokenDepthHead.forward return, with
\* use_intermediate_depth, exactly 4 (feature, None) pairs: linear_1,
\* linear_2, linear_3 of the resampled output, then the resampled output;
\* without it exactly 1 pair, the resampled output.
C5_ResamplerOutputs ==
    (lret.op = "forward" /\ lret.kind \in {"DepthHead", "TaskTokenDepthHead"}
     /\ lret.err = NoErr) =>
            /\ AllNone
            /\ Len(lret.out) = IF lang.obj.use_intermediate_depth THEN 4 ELSE 1
            /\ lret.out[Len(lret.out)][1].term[1] = "projector"
            /\ lang.obj.use_intermediate_depth =>
                   \A k \in 1..3 :
                       lret.out[k][1].term =
                           <<<<"linear_1", "linear_2", "linear_3">>[k], lret.out[4][1].term>>

C5_Witness ==
    /\ lret.op = "forward"
    /\ lret.kind = "TaskTokenDepthHead"
    /\ lret.err = NoErr
    /\ lang.obj.use_intermediate_depth
    /\ Len(lret.out) = 4
    /\ lret.out[2][1].term = <<"linear_2", <<"projector", "llm_feats", "latents">>>>

\* a constructor was called with a proj_config lacking exactly one option
OneMissing == lret.op = "__init__" /\ ~lret.config_none /\ Cardinality(lret.missing) = 1

\* C9 as stated: constructing any of the three heads with a proj_config that
\* lacks one of the six options raises, and no head exists.
C9_AllHeads == OneMissing => (lret.err # NoErr /\ lang.status = "none")

\* C9: constructing DepthHead or TaskTokenDepthHead with a proj_config that
\* lacks one of the six options raises KeyError and no head exists;
\* DepthProbeHead reads only output_dim: it raises when output_dim is
\* absent and is constructed when one of the other five is.
C9_ResamplerHeads ==
    /\ (OneMissing /\ lret.kind \in {"DepthHead", "TaskTokenDepthHead"}) =>
           (lret.err = "KeyError" /\ lang.status = "none")
    /\ (OneMissing /\ lret.kind = "DepthProbeHead" /\ lret.missing = {"output_dim"}) =>
           (lret.err = "KeyError" /\ lang.status = "none")
    /\ (OneMissing /\ lret.kind = "DepthProbeHead" /\ lret.missing # {"output_dim"}) =>
           (lret.err = NoErr /\ lang.status = "ok")

C9_Witness ==
    /\ OneMissing
    /\ lret.kind = "DepthHead"
    /\ lret.missing = {"ff_mult"}
    /\ lret.err = "KeyError"
    /\ lang.status = "none"

====
